---- MODULE Spec2Model ----
(***************************************************************************)
(* A model of the BlinkyTape host driver (python_example/blinkytape.py).   *)
(*                                                                         *)
(* A driver object is a record: its fields ledCount, buffered and buf are  *)
(* the fields of the Python object; wire and io are the serial channel as  *)
(* a test double would record it (wire: every write since construction,    *)
(* io: the channel calls made by the most recent driver call); op, args,   *)
(* exc and ret describe the most recent driver call and its outcome.       *)
(* Python 2 strings are sequences of byte values 0..255.                   *)
(***************************************************************************)
EXTENDS Integers, Sequences, FiniteSets, TLC

VARIABLES tape, twin

vars == <<tape, twin>>

(* ------------------------------ bounds --------------------------------- *)

MaxPixelCalls == 2
MaxCmds == 1
MaxFrameCalls == 12
MaxPairCalls == 5

LedCounts == {1, 10}
FrameLedCounts == {1, 9, 10, 11}
Colors == {<<-1, 300, 7>>, <<0, 0, 255>>}
FrameColors == {<<1, 2, 3>>}
SendColors == {<<0, 0, 255>>}
DisplayColors == {<<-1, 300, 7>>}
Lists == {<<<<1, 2, 3>>, <<255, 256, 0>>>>, <<<<0, -1, 0>>>>}

\* device replies: status byte, length byte, payload, then anything further
\* the device has sent; the last one stops short of its announced payload
Responses == {<<80, 3, 1, 2, 3, 4>>, <<70, 3, 127, 255, 0, 128, 66>>, <<80, 0, 9>>,
              <<70, 0, 0>>, <<80, 3, 1>>}
RawCommands == {<<2>>}
Addresses == {4660}
Sectors == {16909060}
Offsets == {256}
FileTypes == {18}
FileLengths == {66051}
DataLengths == {255, 256, 257}
ReadLengths == {256, 257}
FlashLengths == {256}
PairLedCounts == {1, 9, 10}
EncodeLedCounts == {9, 10}
ChannelValues == -100..400
FieldValues == {0, 16909060, 305419896, 2147483647, -1}
AddressValues == {0, 4660, 70000, -1}
FieldReply == <<80, 3, 1, 2, 3, 4>>

Page(n) == [i \in 1..n |-> (7 * i) % 256]

(* ------------------------- values and helpers -------------------------- *)

RECURSIVE Concat(_)
Concat(ss) == IF ss = << >> THEN << >> ELSE Head(ss) \o Concat(Tail(ss))

RetNone == [type |-> "None", status |-> FALSE, n |-> 0, data |-> << >>]
RetBool(b) == [type |-> "bool", status |-> b, n |-> 0, data |-> << >>]
RetInt(k) == [type |-> "int", status |-> FALSE, n |-> k, data |-> << >>]
RetStatusInt(s, k) == [type |-> "status_int", status |-> s, n |-> k, data |-> << >>]
RetStatusData(s, d) == [type |-> "status_data", status |-> s, n |-> 0, data |-> d]

\* chr(v) is defined for 0..255 and raises ValueError otherwise
ChrOk(v) == v \in 0..255

Raise(t, e) == [t EXCEPT !.exc = e]
Return(t, v) == [t EXCEPT !.ret = v]

(* ------------------------------ channel -------------------------------- *)

Ev(kind, data) == [kind |-> kind, data |-> data]

serial_write(t, by, data) ==
  [t EXCEPT !.wire = Append(@, [by |-> by, data |-> data]),
            !.io = Append(@, Ev("write", data))]

serial_flush(t) == [t EXCEPT !.io = Append(@, Ev("flush", << >>))]

\* rest: the unread input that is discarded
serial_flushInput(t, rest) == [t EXCEPT !.io = Append(@, Ev("flushInput", rest))]

serial_read(t, data) == [t EXCEPT !.io = Append(@, Ev("read", data))]

time_sleep(t) == [t EXCEPT !.io = Append(@, Ev("sleep", << >>))]

(* ------------------------------ driver --------------------------------- *)

BlinkyTape(ledCount, buffered) ==
  [ledCount |-> ledCount, buffered |-> buffered, buf |-> << >>,
   wire |-> << >>, io |-> << >>,
   op |-> "init", args |-> << >>, exc |-> "none", ret |-> RetNone,
   count |-> 0, tries |-> 0, nPix |-> 0, nCmd |-> 0]

ClampLow(v) == IF v < 0 THEN 0 ELSE v

ClampHigh_above255(v) == IF v > 255 THEN 254 ELSE v

ClampHigh(v) == IF v >= 255 THEN 254 ELSE v

Control == <<0, 0, 255>>

show_controlOnly(t) ==
  LET t1 == [serial_write(t, "show", Control) EXCEPT !.buf = << >>]
      t2 == serial_flush(t1)
      t3 == serial_flushInput(t2, << >>)
  IN [t3 EXCEPT !.count = 0, !.tries = 0]

show_keepsBuf(t) ==
  LET t1 == IF t.buffered
            THEN serial_write(t, "show", t.buf \o Control)
            ELSE serial_write(t, "show", Control)
      t2 == serial_flush(t1)
      t3 == serial_flushInput(t2, << >>)
  IN [t3 EXCEPT !.count = 0, !.tries = 0]

show(t) ==
  LET t1 == IF t.buffered
            THEN [serial_write(t, "show", t.buf \o Control) EXCEPT !.buf = << >>]
            ELSE serial_write(t, "show", Control)
      t2 == serial_flush(t1)
      t3 == serial_flushInput(t2, << >>)
  IN [t3 EXCEPT !.count = 0, !.tries = 0]

sendPixel_prepends(t, r, g, b) ==
  LET data == <<ClampHigh(ClampLow(r)), ClampHigh(ClampLow(g)), ClampHigh(ClampLow(b))>>
      t0 == [t EXCEPT !.tries = @ + 1]
  IN IF Len(data) * 3 < t.ledCount
     THEN LET t1 == IF t.buffered
                    THEN [t0 EXCEPT !.buf = data \o @]
                    ELSE serial_flush(serial_write(t0, "sendPixel", data))
          IN [t1 EXCEPT !.count = @ + 1]
     ELSE Raise(t0, "RuntimeError")

sendPixel_unbuffered(t, r, g, b) ==
  LET data == <<ClampHigh(ClampLow(r)), ClampHigh(ClampLow(g)), ClampHigh(ClampLow(b))>>
      t0 == [t EXCEPT !.tries = @ + 1]
  IN IF Len(data) * 3 < t.ledCount
     THEN [serial_flush(serial_write(t0, "sendPixel", data)) EXCEPT !.count = @ + 1]
     ELSE Raise(t0, "RuntimeError")

\* count and tries are history counters (successful / all sendPixel calls
\* since the last show); the code keeps no such counter.
sendPixel(t, r, g, b) ==
  LET data == <<ClampHigh(ClampLow(r)), ClampHigh(ClampLow(g)), ClampHigh(ClampLow(b))>>
      t0 == [t EXCEPT !.tries = @ + 1]
  IN IF Len(data) * 3 < t.ledCount
     THEN LET t1 == IF t.buffered
                    THEN [t0 EXCEPT !.buf = @ \o data]
                    ELSE serial_flush(serial_write(t0, "sendPixel", data))
          IN [t1 EXCEPT !.count = @ + 1]
     ELSE Raise(t0, "RuntimeError")

\* the second definition of send_list replaces the first (lines 58-63)
send_list(t, colors) ==
  LET enc == [i \in 1..Len(colors) |->
                [j \in 1..3 |-> ClampHigh(colors[i][j])]]
  IN IF \E i \in 1..Len(colors) : \E j \in 1..3 : ~ChrOk(enc[i][j])
     THEN Raise(t, "ValueError")
     ELSE show(serial_write(t, "send_list", Concat(enc)))

RECURSIVE displayLoop(_, _, _, _, _)
displayLoop(t, i, r, g, b) ==
  IF i >= t.ledCount THEN t
  ELSE LET t1 == sendPixel(t, r, g, b)
       IN IF t1.exc # "none" THEN t1 ELSE displayLoop(t1, i + 1, r, g, b)

displayColor(t, r, g, b) ==
  LET t1 == displayLoop(t, 0, r, g, b)
  IN IF t1.exc # "none" THEN t1 ELSE show(t1)


(* ------------------------- management commands ------------------------- *)

\* ten bytes of 255
controlEscapeSequence == [i \in 1..10 |-> 255]

\* ord('P')
StatusP == 80

\* (x >> shift) & 0xFF on Python integers
ByteOf(x, shift) == (x \div (2 ^ shift)) % 256

U32_littleEndian(x) == <<ByteOf(x, 0), ByteOf(x, 8), ByteOf(x, 16), ByteOf(x, 24)>>

U32(x) == <<ByteOf(x, 24), ByteOf(x, 16), ByteOf(x, 8), ByteOf(x, 0)>>

\* resp: the bytes the channel delivers to the reads of this call, in order.
\* The port is opened without a timeout, so read(n) blocks until n bytes
\* have arrived: the call completes only when resp holds them all.
Delivers(resp) == Len(resp) >= 2 /\ Len(resp) >= 2 + resp[2] + 1

sendCommand_dropsFrame(t, command, resp) ==
  LET t1 == serial_write([t EXCEPT !.buf = << >>], "sendCommand", controlEscapeSequence)
      t2 == serial_write(t1, "sendCommand", command)
      t3 == serial_flush(t2)
      t4 == time_sleep(t3)
      retHdr == SubSeq(resp, 1, 2)
      t5 == serial_read(t4, retHdr)
      status == (retHdr[1] = StatusP)
      returnData == SubSeq(resp, 3, 2 + retHdr[2] + 1)
      t6 == serial_read(t5, returnData)
      t7 == serial_flushInput(t6, SubSeq(resp, 3 + retHdr[2] + 1, Len(resp)))
  IN Return(t7, RetStatusData(status, returnData))

sendCommand_noFlush(t, command, resp) ==
  LET t1 == serial_write(t, "sendCommand", controlEscapeSequence)
      t2 == serial_write(t1, "sendCommand", command)
      t4 == time_sleep(t2)
      retHdr == SubSeq(resp, 1, 2)
      t5 == serial_read(t4, retHdr)
      status == (retHdr[1] = StatusP)
      returnData == SubSeq(resp, 3, 2 + retHdr[2] + 1)
      t6 == serial_read(t5, returnData)
      t7 == serial_flushInput(t6, SubSeq(resp, 3 + retHdr[2] + 1, Len(resp)))
  IN Return(t7, RetStatusData(status, returnData))

sendCommand(t, command, resp) ==
  LET t1 == serial_write(t, "sendCommand", controlEscapeSequence)
      t2 == serial_write(t1, "sendCommand", command)
      t3 == serial_flush(t2)
      t4 == time_sleep(t3)
      retHdr == SubSeq(resp, 1, 2)
      t5 == serial_read(t4, retHdr)
      status == (retHdr[1] = StatusP)
      returnData == SubSeq(resp, 3, 2 + retHdr[2] + 1)
      t6 == serial_read(t5, returnData)
      t7 == serial_flushInput(t6, SubSeq(resp, 3 + retHdr[2] + 1, Len(resp)))
  IN Return(t7, RetStatusData(status, returnData))

\* ord(d[0]) << 24 + ord(d[1]) << 16 + ord(d[2]) << 8 + ord(d[3]);
\* indexing past the end of the string raises IndexError
DecodeU32_littleEndian(d) == d[4] * (2 ^ 24) + d[3] * (2 ^ 16) + d[2] * (2 ^ 8) + d[1]

DecodeU32(d) == d[1] * (2 ^ 24) + d[2] * (2 ^ 16) + d[3] * (2 ^ 8) + d[4]

\* the reply handling shared by the six integer-returning operations:
\* t1 is the driver after sendCommand; paired says whether status is returned too
decodeReply_decodesFirst(t1, paired) ==
  LET status == t1.ret.status
      returnData == t1.ret.data
  IN IF Len(returnData) < 4
     THEN Raise(Return(t1, RetNone), "IndexError")
     ELSE LET v == IF status THEN DecodeU32(returnData) ELSE 0
          IN Return(t1, IF paired THEN RetStatusInt(status, v) ELSE RetInt(v))

decodeReply(t1, paired) ==
  LET status == t1.ret.status
      returnData == t1.ret.data
  IN IF status /\ Len(returnData) < 4
     THEN Raise(Return(t1, RetNone), "IndexError")
     ELSE LET v == IF status THEN DecodeU32(returnData) ELSE 0
          IN Return(t1, IF paired THEN RetStatusInt(status, v) ELSE RetInt(v))

programAddress(t, address, resp) ==
  Return(sendCommand(t, <<1, ByteOf(address, 8), ByteOf(address, 0)>>, resp), RetNone)

reloadAnimations(t, resp) == Return(sendCommand(t, <<2>>, resp), RetNone)

getFreeSpace(t, resp) == decodeReply(sendCommand(t, <<16>>, resp), FALSE)

getLargestFile(t, resp) == decodeReply(sendCommand(t, <<17>>, resp), FALSE)

getFileCount(t, resp) == decodeReply(sendCommand(t, <<18>>, resp), FALSE)

getFirstFreeSector(t, resp) == decodeReply(sendCommand(t, <<19>>, resp), FALSE)

getIsFile(t, sector, resp) ==
  decodeReply(sendCommand(t, <<20>> \o U32(sector), resp), TRUE)

deleteFile(t, sector, resp) ==
  LET t1 == sendCommand(t, <<21>> \o U32(sector), resp)
  IN Return(t1, RetBool(t1.ret.status))

createFile(t, fileType, fileLength, resp) ==
  decodeReply(sendCommand(t, <<24, ByteOf(fileType, 0)>> \o U32(fileLength), resp), TRUE)

PageSize == 256

writeFilePage_atMost(t, sector, offset, data, resp) ==
  IF Len(data) > PageSize
  THEN Return(t, RetBool(FALSE))
  ELSE LET t1 == sendCommand(t, <<25>> \o U32(sector) \o U32(offset) \o data, resp)
       IN Return(t1, RetBool(t1.ret.status))

writeFilePage(t, sector, offset, data, resp) ==
  IF Len(data) # PageSize
  THEN Return(t, RetBool(FALSE))
  ELSE LET t1 == sendCommand(t, <<25>> \o U32(sector) \o U32(offset) \o data, resp)
       IN Return(t1, RetBool(t1.ret.status))

readFileData(t, sector, offset, length, resp) ==
  IF length > PageSize
  THEN Return(t, RetBool(FALSE))
  ELSE sendCommand(t, <<26>> \o U32(sector) \o U32(offset) \o <<ByteOf(length - 1, 0)>>, resp)

flashErase_unguarded(t, resp) == Return(sendCommand(t, <<32>>, resp), RetNone)

flashErase(t, resp) == Return(sendCommand(t, <<32, 69, 101>>, resp), RetNone)

flashRead(t, address, length, resp) ==
  sendCommand(t, <<33>> \o U32(address) \o U32(length), resp)

(* ------------------------------ actions -------------------------------- *)

Begin(t, op, args) ==
  [t EXCEPT !.op = op, !.args = args, !.io = << >>, !.exc = "none", !.ret = RetNone]

PixelCall(t, op, args) == [Begin(t, op, args) EXCEPT !.nPix = @ + 1]

Init ==
  /\ \E l \in LedCounts, b \in BOOLEAN : tape = BlinkyTape(l, b)
  /\ twin = tape

DoSendPixel ==
  /\ tape.nPix < MaxPixelCalls
  /\ \E c \in SendColors :
       tape' = sendPixel(PixelCall(tape, "sendPixel", c), c[1], c[2], c[3])
  /\ UNCHANGED twin

DoShow ==
  /\ tape.nPix < MaxPixelCalls
  /\ tape' = show(PixelCall(tape, "show", << >>))
  /\ UNCHANGED twin

DoSendList ==
  /\ tape.nPix < MaxPixelCalls
  /\ \E cs \in Lists : tape' = send_list(PixelCall(tape, "send_list", cs), cs)
  /\ UNCHANGED twin

DoDisplayColor ==
  /\ tape.nPix < MaxPixelCalls
  /\ \E c \in DisplayColors :
       tape' = displayColor(PixelCall(tape, "displayColor", c), c[1], c[2], c[3])
  /\ UNCHANGED twin

CmdCall(t, op, args) == [Begin(t, op, args) EXCEPT !.nCmd = @ + 1]

CanCmd == tape.nCmd < MaxCmds

DoSendCommand ==
  /\ CanCmd
  /\ \E c \in RawCommands, resp \in Responses :
       /\ Delivers(resp)
       /\ tape' = sendCommand(CmdCall(tape, "sendCommand", <<c>>), c, resp)
  /\ UNCHANGED twin

DoProgramAddress ==
  /\ CanCmd
  /\ \E a \in Addresses, resp \in Responses :
       /\ Delivers(resp)
       /\ tape' = programAddress(CmdCall(tape, "programAddress", <<a>>), a, resp)
  /\ UNCHANGED twin

DoReloadAnimations ==
  /\ CanCmd
  /\ \E resp \in Responses :
       /\ Delivers(resp)
       /\ tape' = reloadAnimations(CmdCall(tape, "reloadAnimations", << >>), resp)
  /\ UNCHANGED twin

DoGetFreeSpace ==
  /\ CanCmd
  /\ \E resp \in Responses :
       /\ Delivers(resp)
       /\ tape' = getFreeSpace(CmdCall(tape, "getFreeSpace", << >>), resp)
  /\ UNCHANGED twin

DoGetLargestFile ==
  /\ CanCmd
  /\ \E resp \in Responses :
       /\ Delivers(resp)
       /\ tape' = getLargestFile(CmdCall(tape, "getLargestFile", << >>), resp)
  /\ UNCHANGED twin

DoGetFileCount ==
  /\ CanCmd
  /\ \E resp \in Responses :
       /\ Delivers(resp)
       /\ tape' = getFileCount(CmdCall(tape, "getFileCount", << >>), resp)
  /\ UNCHANGED twin

DoGetFirstFreeSector ==
  /\ CanCmd
  /\ \E resp \in Responses :
       /\ Delivers(resp)
       /\ tape' = getFirstFreeSector(CmdCall(tape, "getFirstFreeSector", << >>), resp)
  /\ UNCHANGED twin

DoGetIsFile ==
  /\ CanCmd
  /\ \E s \in Sectors, resp \in Responses :
       /\ Delivers(resp)
       /\ tape' = getIsFile(CmdCall(tape, "getIsFile", <<s>>), s, resp)
  /\ UNCHANGED twin

DoDeleteFile ==
  /\ CanCmd
  /\ \E s \in Sectors, resp \in Responses :
       /\ Delivers(resp)
       /\ tape' = deleteFile(CmdCall(tape, "deleteFile", <<s>>), s, resp)
  /\ UNCHANGED twin

DoCreateFile ==
  /\ CanCmd
  /\ \E ft \in FileTypes, fl \in FileLengths, resp \in Responses :
       /\ Delivers(resp)
       /\ tape' = createFile(CmdCall(tape, "createFile", <<ft, fl>>), ft, fl, resp)
  /\ UNCHANGED twin

DoWriteFilePage ==
  /\ CanCmd
  /\ \E s \in Sectors, o \in Offsets, n \in DataLengths, resp \in Responses :
       /\ Delivers(resp)
       /\ tape' = writeFilePage(CmdCall(tape, "writeFilePage", <<s, o, n>>),
                                s, o, Page(n), resp)
  /\ UNCHANGED twin

DoReadFileData ==
  /\ CanCmd
  /\ \E s \in Sectors, o \in Offsets, n \in ReadLengths, resp \in Responses :
       /\ Delivers(resp)
       /\ tape' = readFileData(CmdCall(tape, "readFileData", <<s, o, n>>),
                               s, o, n, resp)
  /\ UNCHANGED twin

DoFlashErase ==
  /\ CanCmd
  /\ \E resp \in Responses :
       /\ Delivers(resp)
       /\ tape' = flashErase(CmdCall(tape, "flashErase", << >>), resp)
  /\ UNCHANGED twin

DoFlashRead ==
  /\ CanCmd
  /\ \E a \in Sectors, n \in FlashLengths, resp \in Responses :
       /\ Delivers(resp)
       /\ tape' = flashRead(CmdCall(tape, "flashRead", <<a, n>>), a, n, resp)
  /\ UNCHANGED twin

Next ==
  \/ DoSendPixel
  \/ DoShow
  \/ DoSendList
  \/ DoDisplayColor
  \/ DoSendCommand
  \/ DoProgramAddress
  \/ DoReloadAnimations
  \/ DoGetFreeSpace
  \/ DoGetLargestFile
  \/ DoGetFileCount
  \/ DoGetFirstFreeSector
  \/ DoGetIsFile
  \/ DoDeleteFile
  \/ DoCreateFile
  \/ DoWriteFilePage
  \/ DoReadFileData
  \/ DoFlashErase
  \/ DoFlashRead

Spec == Init /\ [][Next]_vars

(* ---------------- frames: sendPixel and show, long runs ---------------- *)

FrameInit ==
  /\ \E l \in FrameLedCounts, b \in BOOLEAN : tape = BlinkyTape(l, b)
  /\ twin = tape

FrameSendPixel ==
  /\ tape.nPix < MaxFrameCalls
  /\ \E c \in FrameColors :
       tape' = sendPixel(PixelCall(tape, "sendPixel", c), c[1], c[2], c[3])
  /\ UNCHANGED twin

FrameShow ==
  /\ tape.nPix < MaxFrameCalls
  /\ tape' = show(PixelCall(tape, "show", << >>))
  /\ UNCHANGED twin

FrameNext == FrameSendPixel \/ FrameShow

SpecFrame == FrameInit /\ [][FrameNext]_vars

(* ------- a buffered and an immediate driver given the same calls ------- *)

PairInit ==
  \E l \in PairLedCounts :
    /\ tape = BlinkyTape(l, TRUE)
    /\ twin = BlinkyTape(l, FALSE)

PairSendPixel ==
  /\ tape.nPix < MaxPairCalls
  /\ \E c \in Colors :
       /\ tape' = sendPixel(PixelCall(tape, "sendPixel", c), c[1], c[2], c[3])
       /\ twin' = sendPixel(PixelCall(twin, "sendPixel", c), c[1], c[2], c[3])

PairShow ==
  /\ tape.nPix < MaxPairCalls
  /\ tape' = show(PixelCall(tape, "show", << >>))
  /\ twin' = show(PixelCall(twin, "show", << >>))

PairNext == PairSendPixel \/ PairShow

SpecPair == PairInit /\ [][PairNext]_vars

(* ---- encoding of one channel value; twin is sent an in-range pixel ---- *)

EncodeInit ==
  /\ \E l \in EncodeLedCounts, b \in BOOLEAN : tape = BlinkyTape(l, b)
  /\ twin = tape

InRange == <<7, 7, 7>>

EncodeSendPixel ==
  /\ tape.nPix = 0
  /\ \E v \in ChannelValues, pos \in 1..3 :
       LET c == [InRange EXCEPT ![pos] = v]
       IN /\ tape' = sendPixel(PixelCall(tape, "sendPixel", c), c[1], c[2], c[3])
          /\ twin' = sendPixel(PixelCall(twin, "sendPixel", InRange), 7, 7, 7)

EncodeNext == EncodeSendPixel

SpecEncode == EncodeInit /\ [][EncodeNext]_vars

(* ------- request fields: one command with wide integer arguments ------- *)

FieldProgramAddress ==
  /\ tape.nCmd = 0
  /\ \E a \in AddressValues :
       tape' = programAddress(CmdCall(tape, "programAddress", <<a>>), a, FieldReply)
  /\ UNCHANGED twin

FieldGetIsFile ==
  /\ tape.nCmd = 0
  /\ \E x \in FieldValues :
       tape' = getIsFile(CmdCall(tape, "getIsFile", <<x>>), x, FieldReply)
  /\ UNCHANGED twin

FieldDeleteFile ==
  /\ tape.nCmd = 0
  /\ \E x \in FieldValues :
       tape' = deleteFile(CmdCall(tape, "deleteFile", <<x>>), x, FieldReply)
  /\ UNCHANGED twin

FieldCreateFile ==
  /\ tape.nCmd = 0
  /\ \E ft \in FileTypes, x \in FieldValues :
       tape' = createFile(CmdCall(tape, "createFile", <<ft, x>>), ft, x, FieldReply)
  /\ UNCHANGED twin

FieldWriteFilePage ==
  /\ tape.nCmd = 0
  /\ \E x \in FieldValues, y \in FieldValues :
       tape' = writeFilePage(CmdCall(tape, "writeFilePage", <<x, y, PageSize>>),
                             x, y, Page(PageSize), FieldReply)
  /\ UNCHANGED twin

FieldReadFileData ==
  /\ tape.nCmd = 0
  /\ \E x \in FieldValues, y \in FieldValues :
       tape' = readFileData(CmdCall(tape, "readFileData", <<x, y, PageSize>>),
                            x, y, PageSize, FieldReply)
  /\ UNCHANGED twin

FieldFlashRead ==
  /\ tape.nCmd = 0
  /\ \E x \in FieldValues, y \in FieldValues :
       tape' = flashRead(CmdCall(tape, "flashRead", <<x, y>>), x, y, FieldReply)
  /\ UNCHANGED twin

FieldNext ==
  \/ FieldProgramAddress
  \/ FieldGetIsFile
  \/ FieldDeleteFile
  \/ FieldCreateFile
  \/ FieldWriteFilePage
  \/ FieldReadFileData
  \/ FieldFlashRead

SpecFields == Init /\ [][FieldNext]_vars

(* ----------------------- reading the channel log ----------------------- *)

\* all bytes written, in order
Bytes(w) == Concat([i \in 1..Len(w) |-> w[i].data])

\* index of the last write made by show among the first k writes, or 0
RECURSIVE LastShow(_, _)
LastShow(w, k) ==
  IF k = 0 THEN 0 ELSE IF w[k].by = "show" THEN k ELSE LastShow(w, k - 1)

PixelWriters == {"sendPixel", "send_list"}

\* pixel bytes written by writes i..k that are not show's
RECURSIVE PixelBytes(_, _, _)
PixelBytes(w, i, k) ==
  IF i > k THEN 0
  ELSE (IF w[i].by \in PixelWriters THEN Len(w[i].data) ELSE 0) + PixelBytes(w, i + 1, k)

\* a call of the named operation was made by this step
Called(name) == tape'.op = name /\ tape'.nPix + tape'.nCmd = tape.nPix + tape.nCmd + 1

(* ------------------------------- claims -------------------------------- *)

\* C1: for any ledCount L >= 1, in either mode, after L successful sendPixel
\* calls since the last show the next sendPixel call raises the capacity
\* error, writes nothing to the channel and leaves PendingBuffer unchanged.
C1_CapacityError ==
  [][(Called("sendPixel") /\ tape.ledCount >= 1 /\ tape.count = tape.ledCount)
       => /\ tape'.exc = "RuntimeError"
          /\ tape'.io = << >>
          /\ tape'.wire = tape.wire
          /\ tape'.buf = tape.buf]_vars

\* C2: for every L >= 1 and 0 <= N <= L, starting from an empty frame, N
\* sendPixel calls followed by show all succeed, and the frame they put on
\* the wire is exactly 3N + 3 bytes long and ends with (0,0,255).
C2_FrameRoundTrip ==
  [][/\ (Called("sendPixel") /\ tape.ledCount >= 1 /\ tape.tries < tape.ledCount)
          => tape'.exc = "none"
     /\ (Called("show") /\ tape.ledCount >= 1 /\ tape.tries <= tape.ledCount)
          => LET w == tape'.wire
                 first == LastShow(tape.wire, Len(tape.wire)) + 1
                 frame == Bytes(SubSeq(w, first, Len(w)))
             IN /\ tape'.exc = "none"
                /\ Len(frame) = 3 * tape.tries + 3
                /\ SubSeq(frame, Len(frame) - 2, Len(frame)) = <<0, 0, 255>>]_vars

\* the bytes the last sendPixel call handed on (to PendingBuffer or the channel)
Emitted(t) ==
  IF t.buffered THEN SubSeq(t.buf, Len(t.buf) - 2, Len(t.buf))
  ELSE t.wire[Len(t.wire)].data

\* C3: for every integer channel value v in [-100, 400] the byte sendPixel
\* encodes is 0 when v < 0, 254 when v >= 255 and v otherwise; it lies in
\* [0,254]; and the value causes no error (the call raises exactly when the
\* same call with an in-range pixel raises, and never a ValueError).
C3_Clamping ==
  tape.op = "sendPixel" =>
    /\ tape.exc = twin.exc
    /\ tape.exc # "ValueError"
    /\ tape.exc = "none" =>
         /\ Len(Emitted(tape)) = 3
         /\ \A j \in 1..3 :
              LET v == tape.args[j]
                  e == Emitted(tape)[j]
              IN /\ e \in 0..254
                 /\ v < 0 => e = 0
                 /\ v >= 255 => e = 254
                 /\ (v >= 0 /\ v < 255) => e = v

C3_Witness ==
  /\ tape.op = "sendPixel"
  /\ tape.exc = "none"
  /\ tape.args[2] = 400
  /\ Emitted(tape) = <<7, 254, 7>>

\* C4: for a fixed sequence of sendPixel calls followed by show, the bytes
\* written to the channel are the same in buffered and in immediate mode.
C4_ModeEquivalence ==
  (tape.op = "show" /\ twin.op = "show") => Bytes(tape.wire) = Bytes(twin.wire)

\* both drivers have shown a frame of two pixels; the immediate one needed more writes
C4_Witness ==
  /\ tape.op = "show"
  /\ twin.op = "show"
  /\ Len(Bytes(tape.wire)) = 9
  /\ Len(tape.wire) = 1
  /\ Len(twin.wire) = 3

CommandOps ==
  {"sendCommand", "programAddress", "reloadAnimations", "getFreeSpace",
   "getLargestFile", "getFileCount", "getFirstFreeSector", "getIsFile",
   "deleteFile", "createFile", "writeFilePage", "readFileData", "flashErase",
   "flashRead"}

\* the channel calls of the last driver call (the sleep is not one)
ChannelSteps(t) == SelectSeq(t.io, LAMBDA e : e.kind # "sleep")

Kinds(es) == [i \in 1..Len(es) |-> es[i].kind]

TenTimes255 == <<255, 255, 255, 255, 255, 255, 255, 255, 255, 255>>

\* C5: every sendCommand performs, in this order: write ten bytes of 255,
\* write the payload unchanged, flush, read exactly 2 header bytes, read
\* exactly (header byte 1) + 1 payload bytes, drain the input.
C5_CommandOrder ==
  LET ch == ChannelSteps(tape)
  IN /\ (tape.op \in CommandOps \ {"writeFilePage", "readFileData"}) => ch # << >>
     /\ (tape.op \in CommandOps /\ ch # << >>) =>
          /\ Kinds(ch) = <<"write", "write", "flush", "read", "read", "flushInput">>
          /\ ch[1].data = TenTimes255
          /\ tape.op = "sendCommand" => ch[2].data = tape.args[1]
          /\ Len(ch[4].data) = 2
          /\ Len(ch[5].data) = ch[4].data[2] + 1

\* a raw sendCommand([0x02]) has completed its round trip with a 4-byte reply
C5_Witness ==
  /\ tape.op = "sendCommand"
  /\ Bytes(tape.wire) = TenTimes255 \o <<2>>
  /\ Len(ChannelSteps(tape)) = 6
  /\ Len(ChannelSteps(tape)[5].data) = 4

IntegerOps ==
  {"getFreeSpace", "getLargestFile", "getFileCount", "getFirstFreeSector",
   "getIsFile", "createFile"}

\* C6: for a response with header ('P', 3) and payload b0,b1,b2,b3,
\* sendCommand returns status true with those four bytes, and the six
\* integer-returning operations decode b0*2^24 + b1*2^16 + b2*2^8 + b3.
C6_ResponseDecoding ==
  LET ch == ChannelSteps(tape)
  IN (tape.op \in CommandOps /\ ch # << >> /\ ch[4].data = <<80, 3>>) =>
       LET b == ch[5].data
       IN /\ Len(b) = 4
          /\ tape.exc = "none"
          /\ tape.op = "sendCommand" =>
               (tape.ret.type = "status_data" /\ tape.ret.status /\ tape.ret.data = b)
          /\ tape.op \in IntegerOps =>
               tape.ret.n = b[1] * 16777216 + b[2] * 65536 + b[3] * 256 + b[4]
          /\ tape.op \in {"getIsFile", "createFile"} =>
               (tape.ret.type = "status_int" /\ tape.ret.status)

\* getFreeSpace has decoded the reply 'P', 3, 1, 2, 3, 4 as 0x01020304
C6_Witness ==
  /\ tape.op = "getFreeSpace"
  /\ ChannelSteps(tape)[5].data = <<1, 2, 3, 4>>
  /\ tape.ret = RetInt(16909060)

RoundTrips(t) ==
  Cardinality({i \in 1..Len(t.io) : t.io[i].kind = "write" /\ t.io[i].data = TenTimes255})

\* C7: writeFilePage with data of a length other than 256 and readFileData
\* with a length above 256 return failure and perform no channel I/O at all;
\* with a valid size each makes exactly one sendCommand round trip.
\* (args[3] is the data length of writeFilePage, the length of readFileData.)
C7_FailFast ==
  /\ (tape.op = "writeFilePage" /\ tape.args[3] # 256) =>
       (tape.exc = "none" /\ tape.ret = RetBool(FALSE) /\ tape.io = << >>)
  /\ (tape.op = "readFileData" /\ tape.args[3] > 256) =>
       (tape.exc = "none" /\ tape.ret = RetBool(FALSE) /\ tape.io = << >>)
  /\ (tape.op = "writeFilePage" /\ tape.args[3] = 256) =>
       (RoundTrips(tape) = 1 /\ Len(ChannelSteps(tape)) = 6)
  /\ (tape.op = "readFileData" /\ tape.args[3] <= 256) =>
       (RoundTrips(tape) = 1 /\ Len(ChannelSteps(tape)) = 6)

\* writeFilePage was given 255 bytes while the channel already carried a frame
C7_Witness ==
  /\ tape.op = "writeFilePage"
  /\ tape.args[3] = 255
  /\ tape.ret = RetBool(FALSE)
  /\ tape.wire # << >>

WrittenBy(t) ==
  Concat([i \in 1..Len(ChannelSteps(t)) |->
            IF ChannelSteps(t)[i].kind = "write" THEN ChannelSteps(t)[i].data ELSE << >>])

\* C8: in every reachable driver state flashErase writes exactly the ten-byte
\* 255 preamble followed by 0x20, 'E', 'e', and nothing else.
C8_EraseGuard ==
  tape.op = "flashErase" => WrittenBy(tape) = TenTimes255 \o <<32, 69, 101>>

\* flashErase was called while pixels were pending in the buffer
C8_Witness ==
  /\ tape.op = "flashErase"
  /\ tape.buf # << >>
  /\ Len(tape.wire) = 2

\* a management command's bytes lie between a pixel triplet already on the
\* wire and the show sentinel that closes that pixel's frame
Split(w) ==
  \E i \in 1..Len(w) : \E j \in (i + 1)..Len(w) : \E k \in (j + 1)..Len(w) :
    /\ w[i].by \in PixelWriters /\ w[i].data # << >>
    /\ w[j].by = "sendCommand"
    /\ w[k].by = "show"
    /\ \A m \in i..(k - 1) : w[m].by # "show"

\* C9 as claimed: in either mode no management command's bytes appear on the
\* wire between a pixel triplet of a frame and that frame's show sentinel.
C9_NoInterleaving == ~Split(tape.wire)

\* C9 amended: in buffered mode no management command's bytes appear on the
\* wire between a pixel triplet of a frame and that frame's show sentinel.
C9_NoInterleavingBuffered == tape.buffered => ~Split(tape.wire)

\* buffered mode: one pixel was buffered and a command sent before show put
\* the frame on the wire; the command's bytes precede the whole frame
C9_Witness ==
  /\ tape.buffered
  /\ tape.op = "show"
  /\ Len(tape.wire) = 3
  /\ tape.wire[1].by = "sendCommand"
  /\ Len(tape.wire[3].data) = 6

\* C10: every frame on the wire (the pixel triplets between two consecutive
\* show sentinels) holds at most ledCount pixels, and PendingBuffer never
\* holds more than ledCount triplets.
C10_FrameWithinLedCount ==
  /\ Len(tape.buf) <= 3 * tape.ledCount
  /\ \A k \in 1..Len(tape.wire) :
       tape.wire[k].by = "show" =>
         PixelBytes(tape.wire, LastShow(tape.wire, k - 1) + 1, k - 1)
           + (Len(tape.wire[k].data) - 3) <= 3 * tape.ledCount

\* the aligned 3-byte groups of a byte string
Triplets(d) == {SubSeq(d, 3 * i - 2, 3 * i) : i \in 1..(Len(d) \div 3)}

\* C11: whatever integer channel values sendPixel, sendList, displayColor are
\* given, every byte they and show write is in [0,254], except the third
\* byte of a (0,0,255) show sentinel, and no pixel triplet on the wire
\* equals the sentinel.
C11_WireBytes ==
  \A k \in 1..Len(tape.wire) :
    LET c == tape.wire[k]
        px == IF c.by = "show" THEN SubSeq(c.data, 1, Len(c.data) - 3) ELSE c.data
    IN c.by # "sendCommand" =>
         /\ \A i \in 1..Len(px) : px[i] \in 0..254
         /\ Len(px) % 3 = 0
         /\ <<0, 0, 255>> \notin Triplets(px)
         /\ c.by = "show" =>
              SubSeq(c.data, Len(c.data) - 2, Len(c.data)) = <<0, 0, 255>>

\* sendPixel(0,0,255) went out as (0,0,254), and show then added the sentinel
C11_Witness ==
  /\ Len(tape.wire) = 2
  /\ tape.wire[1] = [by |-> "sendPixel", data |-> <<0, 0, 254>>]
  /\ tape.wire[2] = [by |-> "show", data |-> <<0, 0, 255>>]

ShowCallers == {"show", "send_list", "displayColor"}

\* C12: after every show call, also on an empty frame, PendingBuffer is
\* empty; and only show (called directly or through sendList or
\* displayColor) ever makes a non-empty PendingBuffer empty.
C12_ShowResets ==
  [][/\ Called("show") => tape'.buf = << >>
     /\ (tape'.op \in ShowCallers /\ tape'.exc = "none") => tape'.buf = << >>
     /\ (tape.buf # << >> /\ tape'.buf = << >>) =>
          /\ tape'.op \in ShowCallers
          /\ tape'.exc = "none"
          /\ tape'.wire[Len(tape'.wire)].by = "show"]_vars

\* show has written a buffered pixel with the sentinel and emptied the buffer
C12_Witness ==
  /\ tape.op = "show"
  /\ tape.buffered
  /\ tape.buf = << >>
  /\ Len(tape.wire) = 1
  /\ Len(tape.wire[1].data) = 6

\* the bytes written to the channel by the step
NewBytes == Bytes(SubSeq(tape'.wire, Len(tape.wire) + 1, Len(tape'.wire)))

\* the triplet the claims expect for a pixel: negative to 0, >= 255 to 254
Expected(c) ==
  [j \in 1..3 |-> IF c[j] < 0 THEN 0 ELSE IF c[j] >= 255 THEN 254 ELSE c[j]]

RECURSIVE Copies(_, _)
Copies(n, d) == IF n <= 0 THEN << >> ELSE d \o Copies(n - 1, d)

\* C13: for every ledCount L >= 1 and every color, displayColor(r,g,b) on an
\* empty frame succeeds and puts on the wire exactly L copies of the clamped
\* triplet followed by (0,0,255).
C13_DisplayColor ==
  [][(Called("displayColor") /\ tape.ledCount >= 1 /\ tape.tries = 0 /\ tape.buf = << >>)
       => /\ tape'.exc = "none"
          /\ NewBytes = Copies(tape.ledCount, Expected(tape'.args)) \o <<0, 0, 255>>]_vars

\* the two bytes at i, i+1 read most significant byte first
Field2(cmd, i) == cmd[i] * 256 + cmd[i + 1]

\* the four bytes at i..i+3, read most significant byte first, are x modulo
\* 2^32; stated on the two 16-bit halves, x mod 2^32 being
\* ((x div 2^16) mod 2^16) * 2^16 + (x mod 2^16)
Field4Is(cmd, i, x) ==
  /\ Field2(cmd, i) = (x \div 65536) % 65536
  /\ Field2(cmd, i + 2) = x % 65536

\* the command payload written by the last call
Payload(t) == ChannelSteps(t)[2].data

\* C14: every multi-byte integer request field is written most significant
\* byte first at its fixed width: 2 bytes for programAddress's address, 4
\* bytes for the sector, offset, address and length fields of the others, so
\* that reading the written bytes big-endian gives the argument modulo 2^16
\* or 2^32.
C14_BigEndianFields ==
  LET a == tape.args
      cmd == Payload(tape)
  IN /\ tape.op = "programAddress" =>
          (Len(cmd) = 3 /\ Field2(cmd, 2) = a[1] % 65536)
     /\ tape.op \in {"getIsFile", "deleteFile"} =>
          (Len(cmd) = 5 /\ Field4Is(cmd, 2, a[1]))
     /\ tape.op = "createFile" =>
          (Len(cmd) = 6 /\ Field4Is(cmd, 3, a[2]))
     /\ tape.op = "writeFilePage" =>
          (Len(cmd) = 9 + 256 /\ Field4Is(cmd, 2, a[1]) /\ Field4Is(cmd, 6, a[2]))
     /\ tape.op = "readFileData" =>
          (Len(cmd) = 10 /\ Field4Is(cmd, 2, a[1]) /\ Field4Is(cmd, 6, a[2]))
     /\ tape.op = "flashRead" =>
          (Len(cmd) = 9 /\ Field4Is(cmd, 2, a[1]) /\ Field4Is(cmd, 6, a[2]))

\* flashRead(0x12345678, -1) wrote 12 34 56 78 FF FF FF FF after its opcode
C14_Witness ==
  /\ tape.op = "flashRead"
  /\ tape.args = <<305419896, -1>>
  /\ Payload(tape) = <<33, 18, 52, 86, 120, 255, 255, 255, 255>>

\* C15: when a completed round trip returns a status byte other than 'P',
\* whatever the length byte and payload, the operation reports failure as a
\* value and not as an exception: the four getters return 0, getIsFile and
\* createFile return (false, 0), deleteFile and writeFilePage return false;
\* exactly one command was written and none is retried.
C15_DeviceFailure ==
  LET ch == ChannelSteps(tape)
  IN (tape.op \in CommandOps /\ ch # << >> /\ ch[4].data[1] # 80) =>
       /\ tape.exc = "none"
       /\ RoundTrips(tape) = 1
       /\ Len(ch) = 6
       /\ tape.op \in {"getFreeSpace", "getLargestFile", "getFileCount",
                       "getFirstFreeSector"} => tape.ret = RetInt(0)
       /\ tape.op \in {"getIsFile", "createFile"} => tape.ret = RetStatusInt(FALSE, 0)
       /\ tape.op \in {"deleteFile", "writeFilePage"} => tape.ret = RetBool(FALSE)

\* getFileCount got the reply 'F', 0, 0 (one payload byte) and returned 0
C15_Witness ==
  /\ tape.op = "getFileCount"
  /\ ChannelSteps(tape)[4].data = <<70, 0>>
  /\ Len(ChannelSteps(tape)[5].data) = 1
  /\ tape.ret = RetInt(0)

\* C16: for every list of pixels with arbitrary integer channel values,
\* sendList on an empty frame raises no error and puts on the wire, in list
\* order, the triplets sendPixel's clamping would produce (negative to 0,
\* >= 255 to 254) as a single write, followed by the (0,0,255) sentinel.
C16_SendListClamps ==
  [][(Called("send_list") /\ tape.tries = 0 /\ tape.buf = << >>) =>
       LET colors == tape'.args
           want == Concat([i \in 1..Len(colors) |-> Expected(colors[i])])
       IN /\ tape'.exc = "none"
          /\ Len(tape'.wire) = Len(tape.wire) + 2
          /\ tape'.wire[Len(tape.wire) + 1].data = want
          /\ NewBytes = want \o <<0, 0, 255>>]_vars

IsPrefix(p, d) == Len(p) <= Len(d) /\ SubSeq(d, 1, Len(p)) = p

\* C17, checked on a buffered driver (tape) and an immediate one (twin) given
\* the same calls: in buffered mode a successful sendPixel makes no channel
\* call and appends its triplet, and the next show writes the pending
\* triplets once, in call order, before the sentinel; in immediate mode a
\* successful sendPixel makes one 3-byte write then one flush, and
\* PendingBuffer is empty in every state.
C17_BufferedVsImmediate ==
  [][/\ (Called("sendPixel") /\ tape'.exc = "none") =>
          /\ tape'.io = << >>
          /\ tape'.wire = tape.wire
          /\ tape'.buf = tape.buf \o Expected(tape'.args)
     /\ (Called("sendPixel") /\ twin'.exc = "none") =>
          /\ Len(twin'.io) = 2
          /\ twin'.io[1] = Ev("write", Expected(twin'.args))
          /\ twin'.io[2].kind = "flush"
     /\ Called("show") =>
          /\ Len(tape'.wire) = Len(tape.wire) + 1
          /\ tape'.wire[Len(tape'.wire)].data = tape.buf \o <<0, 0, 255>>
          /\ tape'.buf = << >>
     /\ twin'.buf = << >>]_vars

\* two different pixels were buffered and show wrote them in call order
C17_Witness ==
  /\ tape.op = "show"
  /\ Len(tape.wire) = 1
  /\ tape.wire[1].data = <<0, 254, 7, 0, 0, 254, 0, 0, 255>>
  /\ Len(twin.wire) = 3

\* C18: within one frame the pixel triplets reach the wire in the order the
\* calls submitted them; pixels buffered by sendPixel before a sendList call
\* precede that list's pixels.
C18_SubmissionOrder ==
  [][(Called("send_list") /\ tape'.exc = "none") =>
       LET colors == tape'.args
       IN NewBytes = tape.buf \o Concat([i \in 1..Len(colors) |-> Expected(colors[i])])
                       \o <<0, 0, 255>>]_vars

\* C19: every management operation, fail-fast paths included, leaves
\* PendingBuffer, ledCount and the buffering mode unchanged, so that the
\* next show still transmits the pixels buffered before the command,
\* complete and in order.
C19_CommandsKeepFrame ==
  [][/\ (tape'.op \in CommandOps /\ tape'.nCmd = tape.nCmd + 1) =>
          /\ tape'.buf = tape.buf
          /\ tape'.ledCount = tape.ledCount
          /\ tape'.buffered = tape.buffered
     /\ (Called("show") /\ tape.buffered) =>
          tape'.wire[Len(tape'.wire)].data = tape.buf \o <<0, 0, 255>>]_vars

\* getIsFile made its round trip while a pixel was pending in the buffer
C19_Witness ==
  /\ tape.op = "getIsFile"
  /\ RoundTrips(tape) = 1
  /\ tape.buf = <<0, 0, 254>>

\* C20: for every well-formed response with status 'P' the six
\* integer-decoding operations return a value without raising, also when the
\* payload is shorter than 4 bytes.
C20_ShortPayload ==
  LET ch == ChannelSteps(tape)
  IN (tape.op \in IntegerOps /\ ch # << >> /\ ch[4].data[1] = 80) =>
       (tape.exc = "none" /\ tape.ret.type \in {"int", "status_int"})

====
